---------------------------- MODULE Spec2Model ----------------------------
(***************************************************************************)
(* One NetworkFirmwareUpdater worker (network_updater.py) as a state       *)
(* machine.  The worker blocks only in wait_for_json; every action below   *)
(* runs the code from one blocking read to the next.  The device, the      *)
(* clock and the file system are the environment: each read draws a frame  *)
(* and a "deadline passed" flag from small sets.                           *)
(***************************************************************************)
EXTENDS Integers, Sequences, FiniteSets, TLC

VARIABLES
    pc,                     \* position of the worker thread
    is_open,                \* ModiSerialPort.is_open
    is_network,             \* self.is_network: "True" | "False" | "None"
    network_uuid,           \* self.network_uuid (None is modelled as NoUuid)
    network_id,             \* self.network_id   (None is modelled as -1)
    update_in_progress,     \* self.update_in_progress
    progress,               \* self.progress
    update_error,           \* self.update_error
    update_error_message,   \* self.update_error_message
    has_update_error,       \* self.has_update_error
    firmware_version_info,  \* the catalog handed to update_module_firmware
    files,                  \* the image files of module_firmware_path
    bin_buffer,             \* the image read at line 365 / 504
    retry,                  \* warning wait: retry (nothing reads it once the loop is
                            \* left at line 332, where the model lets go of it)
    is_timeout,             \* warning wait: is_timeout
    page_begin,             \* page loop: page_begin
    erase_error_count,      \* page loop: erase_error_count
    crc_error_count,        \* page loop: crc_error_count
    in_retry,               \* set_firmware_command: inside "while not ret" (FALSE once it returned)
    retry_count,            \* set_firmware_command: retry_count (0 once it returned)
    page_retry_count,       \* set_end_flash_data: page_retry_count
    end_flash_data,         \* the 16 trailer bytes built at lines 465-471
    last_sent,              \* history: the last packet written to the port
    sent_kinds,             \* history: kinds of packet written in this run
    n_reboot,               \* history: reboot packets written
    consec_empty,           \* history: empty reads in a row in the warning wait
    warn_cause,             \* history: why the warning wait ended
    page_erase_sent,        \* history: erase commands sent since the last erase success
    page_crc_sent,          \* history: CRC commands sent for the current page
    crc_fail_run,           \* history: CRC failures in a row on the current page
    pages_acked,            \* history: pages whose CRC command succeeded
    abort_cause,            \* history: why the page loop broke
    end_erase_sent,         \* history: trailer erases sent since the last erase success
    end_seq,                \* history: trailer sequences started
    end_crc_sent,           \* history: trailer CRC commands sent
    end_written,            \* history: bytes of the trailer chunks last sent
    end_chunks_sent,        \* history: trailer chunks sent in this sequence
    end_result,             \* history: outcome of set_end_flash_data
    accepted                \* history: the command that last succeeded and the
                            \* stream_state of the response that made it succeed
                            \* (forgotten when the next command goes out)

\* a run of the checksum engine on its own: calc_crc64 folded over a byte string
VARIABLES
    crc_input,              \* the bytes to be summed, a whole number of 8-byte chunks
    crc_done,               \* the chunks folded so far
    crc_checksum            \* checksum, after crc_done chunks

VARIABLES
    page_data_sent          \* history: sid and size of the data packets written since
                            \* the head of the page loop was last passed, in order

\* NetworkFirmwareMultiUpdater.update_module_firmware (the supervisor thread)
VARIABLES
    modi_ports,             \* the number of ports handed to update_module_firmware
    task_end_callback,      \* whether self.task_end_callback is set
    sup_pc,                 \* position of the supervisor thread
    network_updaters,       \* self.network_updaters: the workers, by slot
    state,                  \* self.state
    multi_network_uuid,     \* self.network_uuid: the uuid text shown for each slot
    multi_update_in_progress, \* self.update_in_progress
    index,                  \* polling loop: index
    is_done,                \* polling loop: is_done
    total_progress,         \* polling loop: total_progress
    n_task_end,             \* history: calls of the task-end callback
    progress_signal,        \* history: the last progress_signal of each slot
    outcome_signal,         \* history: the network_state_signal events of each slot
    total_progress_signal   \* history: the last total_progress_signal

wvars == <<is_open, is_network, network_uuid, network_id, update_in_progress,
           progress, update_error, update_error_message, has_update_error>>
cvars == <<crc_input, crc_done, crc_checksum>>
\* what update_module_firmware is handed; beside it the checksum engine's own
\* run, which no thread touches
inputs == <<firmware_version_info, files, cvars>>
mvars == <<modi_ports, task_end_callback, sup_pc, network_updaters, state,
           multi_network_uuid, multi_update_in_progress, index, is_done, total_progress,
           n_task_end, progress_signal, outcome_signal, total_progress_signal>>
\* what no step of a worker thread changes: its inputs and the supervisor's own state
ivars == <<inputs, mvars>>
lvars == <<bin_buffer, retry, is_timeout, page_begin, erase_error_count, crc_error_count,
           in_retry, retry_count, page_retry_count, end_flash_data>>
hsent == <<last_sent, sent_kinds, n_reboot>>
hwarn == <<consec_empty, warn_cause>>
hpage == <<page_erase_sent, page_crc_sent, crc_fail_run,
           pages_acked, abort_cause>>
hend  == <<end_erase_sent, end_seq, end_crc_sent, end_written,
           end_chunks_sent, end_result>>
wkvars == <<pc, wvars, inputs, lvars, hsent, hwarn, hpage, hend, accepted,
            page_data_sent>>
vars  == <<wkvars, mvars>>

-----------------------------------------------------------------------------
(* Bounds of the model *)

MaxFilePages == 3

-----------------------------------------------------------------------------
(* Program constants *)

NO_ERROR == 0
UPDATE_READY == 1
WRITE_FAIL == 2
VERIFY_FAIL == 3
CRC_ERROR == 4
CRC_COMPLETE == 5
ERASE_ERROR == 6
ERASE_COMPLETE == 7

None == -1
BROADCAST == 4095
page_size == 2048
flash_memory_addr == 134217728
page_offset == 34816
erase_page_num == 2
erase_error_limit == 2
crc_error_limit == 2
max_retry == 5
warning_max_retry == 5
page_retry_max_count == 10
END_FLASH_ADDR == 134346752
BOOT_ENTRY_ADDR == 134254592
BYTES_OVERHEAD == 33

\* Module.* state bytes of module_util (not part of this file's source)
UPDATE_FIRMWARE == 4
UPDATE_FIRMWARE_READY == 5
REBOOT == 6
PNP_OFF == 2

-----------------------------------------------------------------------------
(* Integer helpers: Python's bit operators on non-negative ints *)

RECURSIVE BitOr(_, _)
BitOr(a, b) ==
    IF a = 0 THEN b
    ELSE IF b = 0 THEN a
    ELSE (IF (a % 2 = 1) \/ (b % 2 = 1) THEN 1 ELSE 0)
         + 2 * BitOr(a \div 2, b \div 2)

RECURSIVE BitXor(_, _)
BitXor(a, b) ==
    IF a = 0 THEN b
    ELSE IF b = 0 THEN a
    ELSE (IF (a % 2) # (b % 2) THEN 1 ELSE 0)
         + 2 * BitXor(a \div 2, b \div 2)

RECURSIVE Pow2(_)
Pow2(n) == IF n = 0 THEN 1 ELSE 2 * Pow2(n - 1)

Shl(a, n) == a * Pow2(n)
Shr(a, n) == a \div Pow2(n)


-----------------------------------------------------------------------------
(* CRC engine: calc_crc32 / calc_crc64 *)

\* A 32-bit value is held as its four bytes, least significant first (TLC's
\* integers are narrower than the CRC's intermediate values).  An operand is
\* bound through a singleton set where that makes TLC evaluate it once.
Word(b0, b1, b2, b3) == <<b0, b1, b2, b3>>

ZeroWord == Word(0, 0, 0, 0)

\* 0x4C11DB7
CrcPoly == Word(183, 29, 193, 4)

\* int.from_bytes(data, byteorder="little", signed=False), on the 32 bits that
\* survive the mask of line 669
ByteOr0(data, i) == IF i <= Len(data) THEN data[i] ELSE 0

WordFromBytes(data) ==
    Word(ByteOr0(data, 1), ByteOr0(data, 2), ByteOr0(data, 3), ByteOr0(data, 4))

WordXor(a, b) ==
    Word(BitXor(a[1], b[1]), BitXor(a[2], b[2]), BitXor(a[3], b[3]), BitXor(a[4], b[4]))

\* (crc << 1) & 0xFFFFFFFF
WordShl1(a) ==
    Word((2 * a[1]) % 256,
         ((2 * a[2]) % 256) + (IF a[1] >= 128 THEN 1 ELSE 0),
         ((2 * a[3]) % 256) + (IF a[2] >= 128 THEN 1 ELSE 0),
         ((2 * a[4]) % 256) + (IF a[3] >= 128 THEN 1 ELSE 0))

\* lines 665-669: one round of the loop
Crc32Step(crc) ==
    IF crc[4] >= 128 THEN WordXor(WordShl1(crc), CrcPoly) ELSE WordShl1(crc)

\* lines 664-669
RECURSIVE Crc32Shift(_, _)
Crc32Shift(crc, n) ==
    IF n = 0 THEN crc
    ELSE CHOOSE r \in {Crc32Shift(Crc32Step(c), n - 1) : c \in {crc}} : TRUE

\* lines 661-671
calc_crc32(data, crc) ==
    CHOOSE r \in {Crc32Shift(WordXor(c, WordFromBytes(d)), 32) : c \in {crc}, d \in {data}} : TRUE

\* data[:4] and data[4:]
Slice(data, from, to) ==
    [i \in 1..(IF to > Len(data) THEN Len(data) ELSE to) - (IF from > Len(data) THEN Len(data) ELSE from)
        |-> data[(IF from > Len(data) THEN Len(data) ELSE from) + i]]

calc_crc64_upper_half_first(data, checksum) ==
    calc_crc32(Slice(data, 0, 4), calc_crc32(Slice(data, 4, Len(data)), checksum))

\* lines 673-676
calc_crc64(data, checksum) ==
    calc_crc32(Slice(data, 4, Len(data)), calc_crc32(Slice(data, 0, 4), checksum))

-----------------------------------------------------------------------------
(* Frame codec: the packet handed to parse_message and written to the port *)

Pkt(cmd, sid, did, data) == [c |-> cmd, s |-> sid, d |-> did, b |-> data]

NoPkt == Pkt(-1, 0, 0, <<>>)

\* send_request_network_uuid
UuidRequestPkt == Pkt(40, BROADCAST, BROADCAST, <<255, 255>>)

\* send_set_network_module_state
NetworkModuleStatePkt(did, module_state, pnp_state) ==
    Pkt(164, 0, did, <<module_state, pnp_state>>)

\* send_set_module_state
ModuleStatePkt(did, module_state, pnp_state) ==
    Pkt(9, 0, did, <<module_state, pnp_state>>)

\* the four little-endian bytes written by the loop of send_firmware_command
LE4(v) == <<v % 256, Shr(v, 8) % 256, Shr(v, 16) % 256, Shr(v, 24) % 256>>

\* send_firmware_command (crc_val is given as the four bytes lines 144-146
\* take from it)
FirmwareCommandPkt(operation_type, module_id, crc_val, page_addr) ==
    Pkt(13,
        BitOr(Shl(IF operation_type = "erase" THEN 2 ELSE 1, 8), 1),
        module_id,
        crc_val \o LE4(page_addr))

\* send_firmware_data
FirmwareDataPkt(module_id, seq_num, bin_data) == Pkt(11, seq_num, module_id, bin_data)

-----------------------------------------------------------------------------
(* Version strings, as sequences of characters *)

Digits == <<"0", "1", "2", "3", "4", "5", "6", "7", "8", "9">>

DigitValue(ch) == (CHOOSE i \in 1..10 : Digits[i] = ch) - 1

IsDigit(ch) == \E i \in 1..10 : Digits[i] = ch

\* str.lstrip("v")
RECURSIVE LStripV(_)
LStripV(s) == IF s # <<>> /\ Head(s) = "v" THEN LStripV(Tail(s)) ELSE s

\* s.split(sep)[0]
RECURSIVE FirstField(_, _)
FirstField(s, sep) ==
    IF s = <<>> \/ Head(s) = sep THEN <<>>
    ELSE <<Head(s)>> \o FirstField(Tail(s), sep)

\* s.split(sep)
RECURSIVE Split(_, _)
Split(s, sep) ==
    IF Len(FirstField(s, sep)) = Len(s) THEN <<s>>
    ELSE <<FirstField(s, sep)>>
         \o Split(SubSeq(s, Len(FirstField(s, sep)) + 2, Len(s)), sep)

\* int(digit) raises ValueError unless the text is a decimal number
IsInt(s) == s # <<>> /\ \A i \in 1..Len(s) : IsDigit(s[i])

RECURSIVE ToInt(_)
ToInt(s) ==
    IF s = <<>> THEN 0
    ELSE 10 * ToInt(SubSeq(s, 1, Len(s) - 1)) + DigitValue(s[Len(s)])

\* lines 455-457 / 594-596
VersionFields(info) == Split(FirstField(LStripV(info), "-"), ".")

\* whether lines 457-462 run without ValueError / IndexError
VersionParses(info) ==
    /\ \A i \in 1..Len(VersionFields(info)) : IsInt(VersionFields(info)[i])
    /\ Len(VersionFields(info)) >= 3

\* lines 458-462 / 597-601
VersionWord(info) ==
    BitOr(BitOr(Shl(ToInt(VersionFields(info)[1]), 13),
                Shl(ToInt(VersionFields(info)[2]), 8)),
          ToInt(VersionFields(info)[3]))

VerifyHeaderAlwaysValid(hue) == 170

\* lines 450-452 / 589-591
VerifyHeader(hue) == IF hue THEN 255 ELSE 170

\* lines 465-471 / 604-610
EndFlashData(hue, version) ==
    [i \in 1..16 |->
        CASE i = 1 -> VerifyHeader(hue)
          [] i = 7 -> version % 256
          [] i = 8 -> Shr(version, 8) % 256
          [] i \in 13..16 -> Shr(BOOT_ENTRY_ADDR, (i - 13) * 8) % 256
          [] OTHER -> 0]

-----------------------------------------------------------------------------
(* The environment: module uuids, frames read from the port, image files *)

\* a uuid is held as its type class (the bits above the low 32) and its low
\* 32 bits; these are a network, a camera and another module
Uuid(class, low) == [class |-> class, low |-> low]

NoUuid == Uuid(None, None)

NetworkUuid == Uuid(0, 107187)
CameraUuid == Uuid(16, 312790)
OtherUuid == Uuid(8192, 273)

\* Python's truth value of self.network_uuid
Truthy(uuid) == uuid # NoUuid /\ uuid # Uuid(0, 0)

Uuids == {NetworkUuid, CameraUuid, OtherUuid}

\* get_module_type_from_uuid (module_util): the type class is carried by the
\* bits above the low 32
get_module_type_from_uuid(uuid) ==
    CASE uuid.class = 0 -> "network"
      [] uuid.class = 16 -> "camera"
      [] OTHER -> "other"

\* what wait_for_json hands back: nothing, text that is no JSON, a JSON object
\* without the expected keys, or a decoded frame
Frame(kind, cmd, uuid, w) == [k |-> kind, c |-> cmd, uuid |-> uuid, w |-> w]

NoFrame == Frame("none", 0, NoUuid, 0)
BadJson == Frame("bad_json", 0, NoUuid, 0)
NoKey == Frame("no_key", 0, NoUuid, 0)

\* the stream states a 0x0C frame carries in the model
StreamStates == {NO_ERROR, CRC_ERROR, CRC_COMPLETE, ERASE_ERROR, ERASE_COMPLETE}

Frames ==
    {NoFrame, BadJson, NoKey}
    \cup {Frame("json", 5, u, 0) : u \in Uuids}
    \cup {Frame("json", 10, u, w) : u \in Uuids, w \in {1, 2}}
    \cup {Frame("json", 12, NoUuid, ss) : ss \in StreamStates}
    \cup {Frame("json", 7, NoUuid, 0)}

\* an image file: its length in bytes and the page starts holding non-zero bytes
Image(len, nonzero) == [len |-> len, nonzero |-> nonzero]

NoImage == Image(0, {})

\* sys.getsizeof(bin_buffer)
bin_size(img) == img.len + BYTES_OVERHEAD

bin_begin == page_size

\* line 374 (Python's % takes the sign of the divisor)
bin_end(img) == bin_size(img) - ((bin_size(img) - bin_begin) % page_size)

PageStarts(img) == {pb \in bin_begin..(bin_end(img) - 1) : pb % page_size = 0}

\* the longest file of the model, in bytes
MaxFileLen == MaxFilePages * page_size

\* the byte at offset i of the file
ByteAt(img, i) ==
    IF i < img.len /\ (i - (i % page_size)) \in img.nonzero THEN 1 + (i % 251) ELSE 0

\* bin_buffer[from:to]
FileSlice(img, from, to) ==
    [i \in 1..((IF to > img.len THEN img.len ELSE to) - (IF from > img.len THEN img.len ELSE from))
        |-> ByteAt(img, from + i - 1)]


\* lines 416-423: the checksum accumulated over the chunks of one page.  The
\* fold over all chunks of a page is not computed here (calc_crc64 itself is
\* modelled above and applied to the trailer); the CRC command of a page carries
\* the page's start in its place.
PageChecksum(img, pb) == <<pb % 256, (pb \div 256) % 256, (pb \div 65536) % 256, 0>>

\* the version catalog: {"network": {"app": V}, "camera": {"app": V}}
Catalog(vnet, vcam) == [network |-> vnet, camera |-> vcam]

Catalogs ==
    {Catalog(<<"v", "1", ".", "2", ".", "3">>, <<"7", ".", "3", "1", ".", "2", "5", "5", "-", "r", "c">>),
     Catalog(<<"2", ".", "0", ".", "1", "0">>, <<"v", "1", ".", "x">>)}

\* the two image files of the firmware directory: a full image beside one whose
\* first page is empty and whose last page is short, and an image with only its
\* first page written beside an empty one
Disks ==
    {[network |-> Image(MaxFileLen, PageStarts(Image(MaxFileLen, {}))),
      camera |-> Image(MaxFileLen - 8, PageStarts(Image(MaxFileLen - 8, {})) \ {bin_begin})],
     [network |-> Image(MaxFileLen - 8, {bin_begin}),
      camera |-> Image(MaxFileLen, {})]}

\* line 393: curr_page == bytes(len(curr_page)), worked out once for every page
\* of every file of Disks
EmptyPages ==
    {p \in UNION {{<<d[t], pb>> : pb \in PageStarts(d[t])} :
                     d \in Disks, t \in {"network", "camera"}} :
        \A i \in p[2]..((IF p[2] + page_size > p[1].len
                           THEN p[1].len ELSE p[2] + page_size) - 1) :
            ByteAt(p[1], i) = 0}

IsEmptyPageNever(img, pb) == FALSE

IsEmptyPage(img, pb) == <<img, pb>> \in EmptyPages

\* history record of a command that receive_firmware_command_response let succeed
Accepted(op, stream_state) == [op |-> op, w |-> stream_state]

NoAccepted == Accepted("none", NO_ERROR)

Msg(type, id, text) == [type |-> type, id |-> id, text |-> text]

NoMsg == Msg("", None, "")

-----------------------------------------------------------------------------
(* Decisions of the code, one operator each *)

\* lines 278-281 and 323-324
ModuleId(uuid) == IF Truthy(uuid) THEN uuid.low % 4096 ELSE BROADCAST

\* lines 79-107: what one round of get_connected_module_info's loop decides
GetConnectedModuleInfo(frame, expired) ==
    IF expired
    THEN [ret |-> TRUE, uuid |-> NoUuid, is_network |-> "None"]
    ELSE IF /\ frame.k = "json"
            /\ frame.c \in {5, 10}
            /\ get_module_type_from_uuid(frame.uuid) \in {"network", "camera"}
    THEN [ret |-> TRUE, uuid |-> frame.uuid,
          is_network |-> IF get_module_type_from_uuid(frame.uuid) = "network"
                         THEN "True" ELSE "False"]
    ELSE [ret |-> FALSE, uuid |-> NoUuid, is_network |-> "None"]

\* lines 161-187: what one round of receive_firmware_command_response decides:
\* "true" / "false" are returned, "wait" reads again, "raise" is an uncaught
\* KeyError
ReceiveFirmwareCommandResponse(frame, expired) ==
    IF expired \/ frame.k = "none" THEN "false"
    ELSE IF frame.k = "bad_json" THEN "wait"
    ELSE IF frame.k = "no_key" THEN "raise"
    ELSE IF frame.c # 12 THEN "wait"
    ELSE IF frame.w = CRC_ERROR \/ frame.w = ERASE_ERROR THEN "false"
    ELSE IF frame.w = CRC_COMPLETE \/ frame.w = ERASE_COMPLETE THEN "true"
    ELSE "wait"

AdoptUuidAlways(current, seen) == seen

\* lines 322-323: the uuid of a warning frame is taken only while none is known
AdoptUuid(current, seen) == IF ~Truthy(current) THEN seen ELSE current

\* line 208
RetryExhausted(count) == count > max_retry

\* line 305
WarningRetryExhausted(count) == count > warning_max_retry

AfterWarningIgnoringTimeout(timed_out) == "load_image"

\* line 337
AfterWarning(timed_out) == IF timed_out THEN "warning_timeout" ELSE "load_image"

\* line 407 / 546
EraseErrorExceeded(count) == count > erase_error_limit

CrcErrorExceededLate(count) == count > crc_error_limit + 1

\* line 437 / 576
CrcErrorExceeded(count) == count > crc_error_limit

PageRetryExceededEarly(count) == count >= page_retry_max_count

\* line 257
PageRetryExceeded(count) == count > page_retry_max_count

\* lines 346-349: which pipeline runs
Pipeline(isnet) == IF isnet = "True" THEN "network" ELSE "camera"

\* line 485 / 624
RebootPkt == ModuleStatePkt(BROADCAST, REBOOT, PNP_OFF)

UpdateSuccessAlways(hue) == TRUE

\* line 498 / 637
UpdateSuccess(hue) == ~hue

\* lines 353-357
UpdateError(update_success) == IF ~update_success THEN -1 ELSE 1

\* line 402 / 541
PageAddr(pb) == flash_memory_addr + pb + page_offset

\* lines 238-246: the trailer chunks and the checksum accumulated over them
EndChunk(data, seq_num) == Slice(data, seq_num * 8, seq_num * 8 + 8)

\* worked out once for every trailer a catalog of Catalogs can give
EndChecksums ==
    {<<d, calc_crc64(EndChunk(d, 1), calc_crc64(EndChunk(d, 0), ZeroWord))>> :
        d \in {EndFlashData(hue, VersionWord(k[1][k[2]])) :
                  hue \in BOOLEAN,
                  k \in {c \in Catalogs \X {"network", "camera"} :
                            VersionParses(c[1][c[2]])}}}

EndChecksum(data) == (CHOOSE p \in EndChecksums : p[1] = data)[2]

\* self.write happens only "if self.is_open"; the packets are written in order
Send(pkts, kinds) ==
    IF is_open
    THEN /\ last_sent' = pkts[Len(pkts)]
         /\ sent_kinds' = sent_kinds \cup kinds
    ELSE UNCHANGED <<last_sent, sent_kinds>>

-----------------------------------------------------------------------------
(* The worker: update_module_firmware *)

\* lines 28-62: the fields of a worker after its constructor, and the locals
\* and histories of a run that has not begun
InitWorker ==
    /\ pc = "start"
    /\ is_open = TRUE
    /\ is_network = "True"
    /\ network_uuid = NoUuid
    /\ network_id = None
    /\ update_in_progress = FALSE
    /\ progress = 0
    /\ update_error = 0
    /\ update_error_message = NoMsg
    /\ has_update_error = FALSE
    /\ bin_buffer = NoImage
    /\ retry = 0
    /\ is_timeout = FALSE
    /\ page_begin = 0
    /\ erase_error_count = 0
    /\ crc_error_count = 0
    /\ in_retry = FALSE
    /\ retry_count = 0
    /\ page_retry_count = 0
    /\ end_flash_data = <<>>
    /\ last_sent = NoPkt
    /\ sent_kinds = {}
    /\ n_reboot = 0
    /\ consec_empty = 0
    /\ warn_cause = "none"
    /\ page_erase_sent = 0
    /\ page_crc_sent = 0
    /\ crc_fail_run = 0
    /\ pages_acked = {}
    /\ abort_cause = "none"
    /\ end_erase_sent = 0
    /\ end_seq = 0
    /\ end_crc_sent = 0
    /\ end_written = <<>>
    /\ end_chunks_sent = 0
    /\ end_result = "none"
    /\ accepted = NoAccepted
    /\ page_data_sent = <<>>

\* what the supervisor thread holds before update_module_firmware is called
InitSupervisor ==
    /\ sup_pc = "call"
    /\ network_updaters = <<>>
    /\ state = <<>>
    /\ multi_network_uuid = <<>>
    /\ multi_update_in_progress = FALSE
    /\ index = 0
    /\ is_done = FALSE
    /\ total_progress = 0
    /\ n_task_end = 0
    /\ progress_signal = <<>>
    /\ outcome_signal = <<>>
    /\ total_progress_signal = 0

\* the checksum engine at rest
InitCrc ==
    /\ crc_input = <<>>
    /\ crc_done = 0
    /\ crc_checksum = ZeroWord

\* one worker on its own
Init ==
    /\ InitWorker
    /\ InitCrc
    /\ firmware_version_info \in Catalogs
    /\ files \in Disks
    /\ InitSupervisor
    /\ modi_ports = 0
    /\ task_end_callback = FALSE

\* lines 270-276: up to the first read of get_connected_module_info
Start ==
    /\ pc = "start"
    /\ update_in_progress' = TRUE
    /\ progress' = 0
    /\ Send(<<UuidRequestPkt>>, {"uuid_req"})
    /\ pc' = "identify_wait"
    /\ UNCHANGED <<is_open, is_network, network_uuid, network_id, update_error,
                   update_error_message, has_update_error>>
    /\ UNCHANGED <<ivars, lvars, n_reboot, hwarn, hpage, hend>>
    /\ UNCHANGED <<accepted, page_data_sent>>

\* lines 77-109 and 276-285: one read of Phase 1; on return the mode switch
IdentifyRead ==
    /\ pc = "identify_wait"
    /\ \E frame \in Frames, expired \in BOOLEAN :
        /\ frame.k = "none" => expired
        /\ LET info == GetConnectedModuleInfo(frame, expired) IN
           IF info.ret
           THEN /\ network_uuid' = info.uuid
                /\ is_network' = info.is_network
                /\ network_id' = ModuleId(info.uuid)
                /\ Send(<<NetworkModuleStatePkt(ModuleId(info.uuid), UPDATE_FIRMWARE, PNP_OFF)>>,
                        {"mode"})
                /\ pc' = "handoff"
           ELSE /\ Send(<<UuidRequestPkt>>, {"uuid_req"})
                /\ UNCHANGED <<pc, network_uuid, is_network, network_id>>
    /\ UNCHANGED <<is_open, update_in_progress, progress, update_error,
                   update_error_message, has_update_error>>
    /\ UNCHANGED <<ivars, lvars, n_reboot, hwarn, hpage, hend>>
    /\ UNCHANGED <<accepted, page_data_sent>>

\* lines 287-288
CloseForHandoff ==
    /\ pc = "handoff"
    /\ is_open' = FALSE
    /\ pc' = "reopen"
    /\ UNCHANGED <<is_network, network_uuid, network_id, update_in_progress,
                   progress, update_error, update_error_message, has_update_error>>
    /\ UNCHANGED <<ivars, lvars, hsent, hwarn, hpage, hend>>
    /\ UNCHANGED <<accepted, page_data_sent>>

\* lines 291-300: open() returns or raises
Reopen ==
    /\ pc = "reopen"
    /\ \E opened \in BOOLEAN :
        IF opened
        THEN /\ is_open' = TRUE
             /\ pc' = "warning_wait"
        ELSE /\ pc' = "crashed"
             /\ UNCHANGED is_open
    /\ retry' = 0
    /\ is_timeout' = FALSE
    /\ UNCHANGED <<is_network, network_uuid, network_id, update_in_progress,
                   progress, update_error, update_error_message, has_update_error>>
    /\ UNCHANGED <<bin_buffer, page_begin, erase_error_count, crc_error_count,
                   in_retry, retry_count, page_retry_count, end_flash_data>>
    /\ UNCHANGED <<ivars, hsent, hwarn, hpage, hend>>
    /\ UNCHANGED <<accepted, page_data_sent>>

\* lines 302-337: one read of the warning wait
WarningRead ==
    /\ pc = "warning_wait"
    /\ \E frame \in Frames, expired \in BOOLEAN :
        /\ consec_empty' = IF frame.k = "none" THEN consec_empty + 1 ELSE 0
        /\ IF frame.k = "none"
           THEN /\ retry' = retry + 1
                /\ is_timeout' = WarningRetryExhausted(retry + 1)
                /\ warn_cause' = IF WarningRetryExhausted(retry + 1) THEN "empty" ELSE "none"
                /\ pc' = IF WarningRetryExhausted(retry + 1)
                         THEN AfterWarning(TRUE) ELSE "warning_wait"
                /\ UNCHANGED <<network_uuid, network_id, is_network, hsent>>
           ELSE IF expired
           THEN /\ is_timeout' = TRUE
                /\ warn_cause' = "deadline"
                /\ pc' = AfterWarning(TRUE)
                /\ UNCHANGED <<retry, network_uuid, network_id, is_network, hsent>>
           ELSE IF frame.k = "no_key"
           THEN /\ pc' = "crashed"
                /\ UNCHANGED <<retry, is_timeout, warn_cause, network_uuid,
                               network_id, is_network, hsent>>
           ELSE IF /\ frame.k = "json"
                   /\ frame.c = 10
                   /\ get_module_type_from_uuid(frame.uuid) \in {"network", "camera"}
           THEN /\ network_uuid' = AdoptUuid(network_uuid, frame.uuid)
                /\ network_id' = IF ~Truthy(network_uuid) THEN ModuleId(frame.uuid) ELSE network_id
                /\ is_network' = IF get_module_type_from_uuid(frame.uuid) = "network"
                                 THEN "True" ELSE "False"
                /\ IF frame.w # 2
                   THEN /\ Send(<<ModuleStatePkt(network_id', UPDATE_FIRMWARE_READY, PNP_OFF)>>,
                                {"ready"})
                        /\ pc' = "warning_wait"
                        /\ warn_cause' = "none"
                   ELSE /\ pc' = AfterWarning(is_timeout)
                        /\ warn_cause' = "ready"
                        /\ UNCHANGED <<last_sent, sent_kinds>>
                /\ retry' = IF frame.w # 2 THEN retry ELSE 0
                /\ UNCHANGED <<is_timeout, n_reboot>>
           ELSE UNCHANGED <<pc, retry, is_timeout, warn_cause, network_uuid,
                            network_id, is_network, hsent>>
    /\ UNCHANGED <<is_open, update_in_progress, progress, update_error,
                   update_error_message, has_update_error>>
    /\ UNCHANGED <<bin_buffer, page_begin, erase_error_count, crc_error_count,
                   in_retry, retry_count, page_retry_count, end_flash_data>>
    /\ UNCHANGED <<ivars, hpage, hend>>
    /\ UNCHANGED <<accepted, page_data_sent>>

\* lines 338-339
WarningTimeoutSetError ==
    /\ pc = "warning_timeout"
    /\ update_in_progress' = FALSE
    /\ update_error' = -1
    /\ pc' = "warning_timeout_msg"
    /\ UNCHANGED <<is_open, is_network, network_uuid, network_id, progress,
                   update_error_message, has_update_error>>
    /\ UNCHANGED <<ivars, lvars, hsent, hwarn, hpage, hend>>
    /\ UNCHANGED <<accepted, page_data_sent>>

\* lines 340-342
WarningTimeoutReturn ==
    /\ pc = "warning_timeout_msg"
    /\ update_error_message' = Msg("", None, "Warning timeout")
    /\ is_open' = FALSE
    /\ pc' = "done"
    /\ UNCHANGED <<is_network, network_uuid, network_id, update_in_progress,
                   progress, update_error, has_update_error>>
    /\ UNCHANGED <<ivars, lvars, hsent, hwarn, hpage, hend>>
    /\ UNCHANGED <<accepted, page_data_sent>>

-----------------------------------------------------------------------------
(* Phase 4: update_network_module / update_camera_module, the page loop *)

\* lines 417-419: the chunks the write loop sends for one page
NumChunks(img, pb) ==
    IF pb + page_size <= bin_size(img) THEN page_size \div 8
    ELSE IF pb >= bin_size(img) THEN 0
    ELSE (bin_size(img) - pb + 7) \div 8

\* lines 421-422: the data packet of the chunk at curr_ptr
PageDataPkt(img, module_id, pb, curr_ptr) ==
    FirmwareDataPkt(module_id, curr_ptr \div 8,
                    FileSlice(img, pb + curr_ptr, pb + curr_ptr + 8))

PageDataSentBackwards(img, module_id, pb) ==
    [k \in 1..NumChunks(img, pb) |->
        LET pkt == PageDataPkt(img, module_id, pb, 8 * (NumChunks(img, pb) - k))
        IN  [s |-> pkt.s, n |-> Len(pkt.b)]]

\* lines 417-423: sid and size of the data packets the write loop sends for one
\* page, in the order of the loop
PageDataSent(img, module_id, pb) ==
    [k \in 1..NumChunks(img, pb) |->
        LET pkt == PageDataPkt(img, module_id, pb, 8 * (k - 1))
        IN  [s |-> pkt.s, n |-> Len(pkt.b)]]

\* lines 398-403: the erase command of the current page
PageErasePkt ==
    FirmwareCommandPkt("erase", network_id, LE4(erase_page_num), PageAddr(page_begin))

\* lines 426-431: the CRC command of the current page
PageCrcPkt ==
    FirmwareCommandPkt("crc", network_id, PageChecksum(bin_buffer, page_begin),
                       PageAddr(page_begin))

\* lines 362-382 / 501-521: open() of the image file returns or raises
LoadImage ==
    /\ pc = "load_image"
    /\ \E readable \in BOOLEAN :
        IF readable
        THEN /\ bin_buffer' = files[Pipeline(is_network)]
             /\ page_begin' = bin_begin
             /\ erase_error_count' = 0
             /\ crc_error_count' = 0
             /\ pc' = "page_loop"
        ELSE /\ pc' = "crashed"
             /\ UNCHANGED <<bin_buffer, page_begin, erase_error_count, crc_error_count>>
    /\ UNCHANGED <<retry, is_timeout, in_retry, retry_count, page_retry_count,
                   end_flash_data>>
    /\ UNCHANGED <<wvars, ivars, hsent, hwarn, hpage, hend>>
    /\ UNCHANGED <<accepted, page_data_sent>>

\* lines 383-403: the loop test, the progress, the skip of an empty page, the
\* first erase command of set_firmware_command
PageLoop ==
    /\ pc = "page_loop"
    /\ IF page_begin < bin_end(bin_buffer)
       THEN /\ progress' = (100 * page_begin) \div bin_end(bin_buffer)
            /\ IF IsEmptyPage(bin_buffer, page_begin)
               THEN /\ page_begin' = page_begin + page_size
                    /\ UNCHANGED <<pc, in_retry, retry_count, hsent, page_erase_sent>>
               ELSE /\ Send(<<PageErasePkt>>, {"erase"})
                    /\ page_erase_sent' = page_erase_sent + 1
                    /\ in_retry' = FALSE
                    /\ retry_count' = 0
                    /\ pc' = "page_erase_wait"
                    /\ UNCHANGED <<page_begin, n_reboot>>
       ELSE /\ pc' = "end_flash"
            /\ UNCHANGED <<progress, page_begin, in_retry, retry_count, hsent,
                           page_erase_sent>>
    /\ UNCHANGED <<is_open, is_network, network_uuid, network_id, update_in_progress,
                   update_error, update_error_message, has_update_error>>
    /\ UNCHANGED <<bin_buffer, retry, is_timeout, erase_error_count, crc_error_count,
                   page_retry_count, end_flash_data>>
    /\ UNCHANGED <<ivars, hwarn, page_crc_sent, crc_fail_run, pages_acked,
                   abort_cause, hend>>
    /\ accepted' = NoAccepted
    /\ page_data_sent' = <<>>

\* lines 200-210 for the page erase, then lines 405-431
PageEraseResponse ==
    /\ pc = "page_erase_wait"
    /\ \E frame \in Frames, expired \in BOOLEAN :
        LET got == ReceiveFirmwareCommandResponse(frame, expired)
            gave_up == got = "false" /\ in_retry /\ RetryExhausted(retry_count + 1)
        IN
        CASE got = "wait" ->
                UNCHANGED <<pc, lvars, wvars, hsent, hpage, accepted, page_data_sent>>
          [] got = "raise" ->
                /\ pc' = "crashed"
                /\ UNCHANGED <<lvars, wvars, hsent, hpage, accepted, page_data_sent>>
          [] got = "true" ->
                /\ accepted' = Accepted("erase", frame.w)
                /\ page_data_sent' = IF is_open THEN PageDataSent(bin_buffer, network_id, page_begin)
                                                 ELSE <<>>
                /\ erase_error_count' = 0
                /\ page_erase_sent' = 0
                /\ Send(<<PageDataPkt(bin_buffer, network_id, page_begin,
                                      8 * (NumChunks(bin_buffer, page_begin) - 1)),
                          PageCrcPkt>>, {"data", "crc"})
                /\ page_crc_sent' = page_crc_sent + 1
                /\ in_retry' = FALSE
                /\ retry_count' = 0
                /\ pc' = "page_crc_wait"
                /\ UNCHANGED <<bin_buffer, retry, is_timeout, page_begin, crc_error_count,
                               page_retry_count, end_flash_data>>
                /\ UNCHANGED <<wvars, n_reboot, crc_fail_run, pages_acked, abort_cause>>
          [] got = "false" /\ ~gave_up ->
                /\ in_retry' = TRUE
                /\ retry_count' = IF in_retry THEN retry_count + 1 ELSE 0
                /\ Send(<<PageErasePkt>>, {"erase"})
                /\ page_erase_sent' = page_erase_sent + 1
                /\ UNCHANGED <<pc, bin_buffer, retry, is_timeout, page_begin,
                               erase_error_count, crc_error_count, page_retry_count,
                               end_flash_data>>
                /\ UNCHANGED <<wvars, n_reboot, page_crc_sent, crc_fail_run,
                               pages_acked, abort_cause, accepted, page_data_sent>>
          [] gave_up ->
                /\ IF EraseErrorExceeded(erase_error_count + 1)
                   THEN /\ erase_error_count' = 0
                        /\ has_update_error' = TRUE
                        /\ update_error_message' =
                               Msg(Pipeline(is_network), network_id, "erase flash failed.")
                        /\ abort_cause' = "erase"
                        /\ pc' = "end_flash"
                   ELSE /\ erase_error_count' = erase_error_count + 1
                        /\ pc' = "page_loop"
                        /\ UNCHANGED <<has_update_error, update_error_message, abort_cause>>
                /\ UNCHANGED <<is_open, is_network, network_uuid, network_id,
                               update_in_progress, progress, update_error>>
                /\ in_retry' = FALSE
                /\ retry_count' = 0
                /\ UNCHANGED <<bin_buffer, retry, is_timeout, page_begin, crc_error_count,
                               page_retry_count, end_flash_data>>
                /\ UNCHANGED <<hsent, page_erase_sent, page_crc_sent,
                               crc_fail_run, pages_acked, accepted, page_data_sent>>
    /\ UNCHANGED <<ivars, hwarn, hend>>

\* lines 200 and 210 for the page CRC (no retry inside), then lines 433-445
PageCrcResponse ==
    /\ pc = "page_crc_wait"
    /\ \E frame \in Frames, expired \in BOOLEAN :
        LET got == ReceiveFirmwareCommandResponse(frame, expired) IN
        CASE got = "wait" ->
                UNCHANGED <<pc, lvars, wvars, hpage, accepted, page_data_sent>>
          [] got = "raise" ->
                /\ pc' = "crashed"
                /\ UNCHANGED <<lvars, wvars, hpage, accepted, page_data_sent>>
          [] got = "true" ->
                /\ accepted' = Accepted("crc", frame.w)
                /\ UNCHANGED page_data_sent
                /\ crc_error_count' = 0
                /\ page_begin' = page_begin + page_size
                /\ pages_acked' = pages_acked \cup {page_begin}
                /\ page_crc_sent' = 0
                /\ crc_fail_run' = 0
                /\ pc' = "page_loop"
                /\ UNCHANGED <<bin_buffer, retry, is_timeout, erase_error_count, in_retry,
                               retry_count, page_retry_count, end_flash_data>>
                /\ UNCHANGED <<wvars, page_erase_sent, abort_cause>>
          [] got = "false" ->
                /\ accepted' = NoAccepted
                /\ UNCHANGED page_data_sent
                /\ crc_fail_run' = crc_fail_run + 1
                /\ IF CrcErrorExceeded(crc_error_count + 1)
                   THEN /\ crc_error_count' = 0
                        /\ has_update_error' = TRUE
                        /\ update_error_message' = Msg("", None, "Check crc failed.")
                        /\ abort_cause' = "crc"
                        /\ pc' = "end_flash"
                   ELSE /\ crc_error_count' = crc_error_count + 1
                        /\ pc' = "page_loop"
                        /\ UNCHANGED <<has_update_error, update_error_message, abort_cause>>
                /\ UNCHANGED <<is_open, is_network, network_uuid, network_id,
                               update_in_progress, progress, update_error>>
                /\ UNCHANGED <<bin_buffer, retry, is_timeout, page_begin, erase_error_count,
                               in_retry, retry_count, page_retry_count, end_flash_data>>
                /\ UNCHANGED <<page_erase_sent, page_crc_sent, pages_acked>>
    /\ UNCHANGED <<ivars, hsent, hwarn, hend>>

-----------------------------------------------------------------------------
(* Phase 5: the trailer, set_end_flash_data *)

\* lines 224-229: the erase command of the trailer page
EndErasePkt == FirmwareCommandPkt("erase", network_id, LE4(erase_page_num), END_FLASH_ADDR)

\* line 251: the CRC command of the trailer page
EndCrcPkt ==
    FirmwareCommandPkt("crc", network_id, EndChecksum(end_flash_data), END_FLASH_ADDR)

\* lines 447-473 and 217-229: progress 99, the trailer bytes (the version text
\* may fail to parse), the first erase command of the first sequence
EndFlashStart ==
    /\ pc = "end_flash"
    /\ progress' = 99
    /\ IF VersionParses(firmware_version_info[Pipeline(is_network)])
       THEN /\ end_flash_data' =
                   EndFlashData(has_update_error,
                                VersionWord(firmware_version_info[Pipeline(is_network)]))
            /\ page_retry_count' = 0
            /\ in_retry' = FALSE
            /\ retry_count' = 0
            /\ Send(<<EndErasePkt>>, {"end_erase"})
            /\ end_seq' = end_seq + 1
            /\ end_erase_sent' = 1
            /\ end_chunks_sent' = 0
            /\ pc' = "end_erase_wait"
       ELSE /\ pc' = "crashed"
            /\ UNCHANGED <<end_flash_data, page_retry_count, in_retry, retry_count,
                           last_sent, sent_kinds, end_seq, end_erase_sent,
                           end_chunks_sent>>
    /\ UNCHANGED <<is_open, is_network, network_uuid, network_id, update_in_progress,
                   update_error, update_error_message, has_update_error>>
    /\ UNCHANGED <<bin_buffer, retry, is_timeout, page_begin, erase_error_count,
                   crc_error_count>>
    /\ UNCHANGED <<ivars, n_reboot, hwarn, hpage, end_crc_sent, end_written, end_result>>
    /\ accepted' = NoAccepted
    /\ page_data_sent' = <<>>

\* lines 200-210 for the trailer erase, then lines 232-251
EndEraseResponse ==
    /\ pc = "end_erase_wait"
    /\ \E frame \in Frames, expired \in BOOLEAN :
        LET got == ReceiveFirmwareCommandResponse(frame, expired)
            gave_up == got = "false" /\ in_retry /\ RetryExhausted(retry_count + 1)
        IN
        CASE got = "wait" ->
                UNCHANGED <<pc, lvars, wvars, hsent, hend, accepted, page_data_sent>>
          [] got = "raise" ->
                /\ pc' = "crashed"
                /\ UNCHANGED <<lvars, wvars, hsent, hend, accepted, page_data_sent>>
          [] got = "true" ->
                /\ accepted' = Accepted("erase", frame.w)
                /\ UNCHANGED page_data_sent
                /\ Send(<<FirmwareDataPkt(network_id, 0, EndChunk(end_flash_data, 0)),
                          FirmwareDataPkt(network_id, 1, EndChunk(end_flash_data, 1)),
                          EndCrcPkt>>, {"end_data", "end_crc"})
                /\ end_written' = IF is_open
                                  THEN EndChunk(end_flash_data, 0) \o EndChunk(end_flash_data, 1)
                                  ELSE end_written
                /\ end_chunks_sent' = IF is_open THEN Len(end_flash_data) \div 8 ELSE 0
                /\ end_crc_sent' = end_crc_sent + 1
                /\ end_erase_sent' = 0
                /\ in_retry' = FALSE
                /\ retry_count' = 0
                /\ pc' = "end_crc_wait"
                /\ UNCHANGED <<bin_buffer, retry, is_timeout, page_begin, erase_error_count,
                               crc_error_count, page_retry_count, end_flash_data>>
                /\ UNCHANGED <<wvars, n_reboot, end_seq, end_result>>
          [] got = "false" /\ ~gave_up ->
                /\ in_retry' = TRUE
                /\ retry_count' = IF in_retry THEN retry_count + 1 ELSE 0
                /\ Send(<<EndErasePkt>>, {"end_erase"})
                /\ end_erase_sent' = end_erase_sent + 1
                /\ UNCHANGED <<pc, bin_buffer, retry, is_timeout, page_begin,
                               erase_error_count, crc_error_count, page_retry_count,
                               end_flash_data>>
                /\ UNCHANGED <<wvars, n_reboot, end_seq, end_crc_sent, end_written,
                               end_chunks_sent, end_result, accepted, page_data_sent>>
          [] gave_up ->
                /\ update_error' = -1
                /\ end_result' = "erase_fail"
                /\ pc' = "end_fail_msg"
                /\ UNCHANGED <<is_open, is_network, network_uuid, network_id,
                               update_in_progress, progress, update_error_message,
                               has_update_error>>
                /\ in_retry' = FALSE
                /\ retry_count' = 0
                /\ UNCHANGED <<bin_buffer, retry, is_timeout, page_begin, erase_error_count,
                               crc_error_count, page_retry_count, end_flash_data>>
                /\ UNCHANGED <<hsent, end_erase_sent, end_seq, end_crc_sent,
                               end_written, end_chunks_sent, accepted, page_data_sent>>
    /\ UNCHANGED <<ivars, hwarn, hpage>>

\* lines 200 and 210 for the trailer CRC, then lines 252-267 and 222-229
EndCrcResponse ==
    /\ pc = "end_crc_wait"
    /\ \E frame \in Frames, expired \in BOOLEAN :
        LET got == ReceiveFirmwareCommandResponse(frame, expired) IN
        CASE got = "wait" ->
                UNCHANGED <<pc, lvars, wvars, hsent, hend, accepted, page_data_sent>>
          [] got = "raise" ->
                /\ pc' = "crashed"
                /\ UNCHANGED <<lvars, wvars, hsent, hend, accepted, page_data_sent>>
          [] got = "true" ->
                /\ accepted' = Accepted("crc", frame.w)
                /\ UNCHANGED page_data_sent
                /\ page_retry_count' = 0
                /\ end_result' = "ok"
                /\ pc' = "reboot"
                /\ UNCHANGED <<bin_buffer, retry, is_timeout, page_begin, erase_error_count,
                               crc_error_count, in_retry, retry_count, end_flash_data>>
                /\ UNCHANGED <<wvars, hsent, end_erase_sent, end_seq, end_crc_sent,
                               end_written, end_chunks_sent>>
          [] got = "false" /\ update_error = -1 ->
                /\ accepted' = NoAccepted
                /\ UNCHANGED page_data_sent
                /\ end_result' = "crc_fail"
                /\ pc' = "end_fail_caller"
                /\ UNCHANGED <<lvars, wvars, hsent, end_erase_sent, end_seq, end_crc_sent,
                               end_written, end_chunks_sent>>
          [] got = "false" /\ update_error # -1 /\ PageRetryExceeded(page_retry_count + 1) ->
                /\ accepted' = NoAccepted
                /\ UNCHANGED page_data_sent
                /\ page_retry_count' = page_retry_count + 1
                /\ update_error' = -1
                /\ end_result' = "crc_fail"
                /\ pc' = "end_fail_msg"
                /\ UNCHANGED <<is_open, is_network, network_uuid, network_id,
                               update_in_progress, progress, update_error_message,
                               has_update_error>>
                /\ UNCHANGED <<bin_buffer, retry, is_timeout, page_begin, erase_error_count,
                               crc_error_count, in_retry, retry_count, end_flash_data>>
                /\ UNCHANGED <<hsent, end_erase_sent, end_seq, end_crc_sent, end_written,
                               end_chunks_sent>>
          [] got = "false" /\ update_error # -1 /\ ~PageRetryExceeded(page_retry_count + 1) ->
                /\ accepted' = NoAccepted
                /\ UNCHANGED page_data_sent
                /\ page_retry_count' = page_retry_count + 1
                /\ in_retry' = FALSE
                /\ retry_count' = 0
                /\ Send(<<EndErasePkt>>, {"end_erase"})
                /\ end_seq' = end_seq + 1
                /\ end_erase_sent' = 1
                /\ end_chunks_sent' = 0
                /\ pc' = "end_erase_wait"
                /\ UNCHANGED <<bin_buffer, retry, is_timeout, page_begin, erase_error_count,
                               crc_error_count, end_flash_data>>
                /\ UNCHANGED <<wvars, n_reboot, end_crc_sent, end_written, end_result>>
    /\ UNCHANGED <<ivars, hwarn, hpage>>

\* line 234 / 259
EndFailMessage ==
    /\ pc = "end_fail_msg"
    /\ update_error_message' =
           Msg("", None, IF end_result = "erase_fail" THEN "End erase error"
                         ELSE "End crc error")
    /\ pc' = "end_fail_caller"
    /\ UNCHANGED <<is_open, is_network, network_uuid, network_id, update_in_progress,
                   progress, update_error, has_update_error>>
    /\ UNCHANGED <<ivars, lvars, hsent, hwarn, hpage, hend>>
    /\ UNCHANGED <<accepted, page_data_sent>>

\* lines 474-477 / 613-616
EndFailCaller ==
    /\ pc = "end_fail_caller"
    /\ update_error_message' = Msg("", None, "version writing failed.")
    /\ has_update_error' = TRUE
    /\ pc' = "reboot"
    /\ UNCHANGED <<is_open, is_network, network_uuid, network_id, update_in_progress,
                   progress, update_error>>
    /\ UNCHANGED <<ivars, lvars, hsent, hwarn, hpage, hend>>
    /\ UNCHANGED <<accepted, page_data_sent>>

-----------------------------------------------------------------------------
(* Phase 6 and the return to update_module_firmware *)

\* line 485 / 624
Reboot ==
    /\ pc = "reboot"
    /\ Send(<<RebootPkt>>, {"reboot"})
    /\ n_reboot' = IF is_open THEN n_reboot + 1 ELSE n_reboot
    /\ pc' = "progress100"
    /\ UNCHANGED <<wvars, ivars, lvars, hwarn, hpage, hend>>
    /\ accepted' = NoAccepted
    /\ UNCHANGED page_data_sent

\* lines 488-498 / 627-637
Progress100 ==
    /\ pc = "progress100"
    /\ progress' = 100
    /\ is_open' = FALSE
    /\ pc' = "epilogue"
    /\ UNCHANGED <<is_network, network_uuid, network_id, update_in_progress,
                   update_error, update_error_message, has_update_error>>
    /\ UNCHANGED <<ivars, lvars, hsent, hwarn, hpage, hend>>
    /\ UNCHANGED <<accepted, page_data_sent>>

\* lines 351-359
Epilogue ==
    /\ pc = "epilogue"
    /\ is_open' = FALSE
    /\ update_error' = UpdateError(UpdateSuccess(has_update_error))
    /\ update_in_progress' = FALSE
    /\ pc' = "done"
    /\ UNCHANGED <<is_network, network_uuid, network_id, progress,
                   update_error_message, has_update_error>>
    /\ UNCHANGED <<ivars, lvars, hsent, hwarn, hpage, hend>>
    /\ UNCHANGED <<accepted, page_data_sent>>

Next ==
    \/ Start
    \/ IdentifyRead
    \/ CloseForHandoff
    \/ Reopen
    \/ WarningRead
    \/ WarningTimeoutSetError
    \/ WarningTimeoutReturn
    \/ LoadImage
    \/ PageLoop
    \/ PageEraseResponse
    \/ PageCrcResponse
    \/ EndFlashStart
    \/ EndEraseResponse
    \/ EndCrcResponse
    \/ EndFailMessage
    \/ EndFailCaller
    \/ Reboot
    \/ Progress100
    \/ Epilogue

Spec == Init /\ [][Next]_vars

-----------------------------------------------------------------------------
(* NetworkFirmwareMultiUpdater.update_module_firmware and its worker threads.
   A worker is carried here by what the supervisor thread can read of it (its
   public fields) and by its position in update_module_firmware; one step of
   a worker is one change of a public field or of the position.  The steps
   are those of the single worker above: see WorkerFollowsThread. *)

\* the ports handed to update_module_firmware: at most this many
MaxPorts == 2

\* line 707: "if i > 9: break"
MaxUpdaters == 10

Min(a, b) == IF a < b THEN a ELSE b

\* f'0x{uuid:X}' (line 750): upper-case hexadecimal without leading zeros
HexDigits == <<"0", "1", "2", "3", "4", "5", "6", "7", "8", "9",
               "A", "B", "C", "D", "E", "F">>

RECURSIVE Hex(_)
Hex(n) == IF n < 16 THEN <<HexDigits[n + 1]>>
          ELSE Hex(n \div 16) \o <<HexDigits[(n % 16) + 1]>>

RECURSIVE HexPadded(_, _)
HexPadded(n, width) ==
    IF width = 0 THEN <<>>
    ELSE HexPadded(n \div 16, width - 1) \o <<HexDigits[(n % 16) + 1]>>

UuidText(uuid) ==
    <<"0", "x">> \o (IF uuid.class = 0 THEN Hex(uuid.low)
                     ELSE Hex(uuid.class) \o HexPadded(uuid.low, 8))

\* the uuids get_connected_module_info and the warning wait accept
AcceptedUuids == {u \in Uuids : get_module_type_from_uuid(u) \in {"network", "camera"}}

\* the values line 385 / 524 gives self.progress over the files of Disks
FlashProgress ==
    UNION {{(100 * pb) \div bin_end(d[t]) : pb \in PageStarts(d[t])} :
              d \in Disks, t \in {"network", "camera"}}

\* a NetworkFirmwareUpdater as the supervisor thread sees it
Worker(at, uuid, prog, err, text, hue, open) ==
    [at |-> at, network_uuid |-> uuid, progress |-> prog, update_error |-> err,
     update_error_message |-> text, has_update_error |-> hue, is_open |-> open]

\* lines 28-62: a worker as its constructor leaves it
NewWorker == Worker("start", NoUuid, 0, 0, "", FALSE, TRUE)

\* the steps of one worker thread: the set of workers w can become in one step,
\* when the devices answer with the uuids of the set uuids and the image files
\* give the progress values of the set flash_progress
WorkerSteps(w, uuids, flash_progress) ==
    CASE w.at = "start" ->              \* lines 270-272
            {[w EXCEPT !.at = "identify", !.progress = 0]}
      [] w.at = "identify" ->           \* lines 276-284
            {[w EXCEPT !.at = "handoff", !.network_uuid = u] :
                u \in uuids \cup {NoUuid}}
      [] w.at = "handoff" ->            \* line 287
            {[w EXCEPT !.at = "reopen", !.is_open = FALSE]}
      [] w.at = "reopen" ->             \* lines 291-295
            {[w EXCEPT !.at = "warning", !.is_open = TRUE],
             [w EXCEPT !.at = "crashed"]}
      [] w.at = "warning" ->            \* lines 302-339
            {[w EXCEPT !.network_uuid = u] :
                u \in IF Truthy(w.network_uuid) THEN {} ELSE uuids}
            \cup {[w EXCEPT !.at = "load", !.network_uuid = u] :
                     u \in IF Truthy(w.network_uuid) THEN {w.network_uuid}
                           ELSE uuids}
            \cup {[w EXCEPT !.at = "timeout", !.update_error = -1],
                  [w EXCEPT !.at = "crashed"]}
      [] w.at = "timeout" ->            \* lines 340-342
            {[w EXCEPT !.at = "done", !.update_error_message = "Warning timeout",
                       !.is_open = FALSE]}
      [] w.at = "load" ->               \* lines 362-382
            {[w EXCEPT !.at = "flash"], [w EXCEPT !.at = "crashed"]}
      [] w.at = "flash" ->              \* lines 383-445
            {[w EXCEPT !.progress = p] : p \in {q \in flash_progress : q > w.progress}}
            \cup {[w EXCEPT !.at = "end_flash", !.has_update_error = TRUE,
                            !.update_error_message = text] :
                     text \in {"erase flash failed.", "Check crc failed."}}
            \cup {[w EXCEPT !.at = "end_flash"], [w EXCEPT !.at = "crashed"]}
      [] w.at = "end_flash" ->          \* lines 447-473
            {[w EXCEPT !.at = "trailer", !.progress = 99],
             [w EXCEPT !.at = "crashed", !.progress = 99]}
      [] w.at = "trailer" ->            \* lines 216-267
            {[w EXCEPT !.at = "reboot"],
             [w EXCEPT !.at = "end_fail", !.update_error = -1],
             [w EXCEPT !.at = "crashed"]}
      [] w.at = "end_fail" ->           \* line 234 / 259
            {[w EXCEPT !.at = "end_fail_caller", !.update_error_message = text] :
                text \in {"End erase error", "End crc error"}}
      [] w.at = "end_fail_caller" ->    \* lines 474-477
            {[w EXCEPT !.at = "reboot", !.has_update_error = TRUE,
                       !.update_error_message = "version writing failed."]}
      [] w.at = "reboot" ->             \* line 485
            {[w EXCEPT !.at = "progress100"]}
      [] w.at = "progress100" ->        \* lines 488-496
            {[w EXCEPT !.at = "epilogue", !.progress = 100, !.is_open = FALSE]}
      [] w.at = "epilogue" ->           \* lines 351-359
            {[w EXCEPT !.at = "done",
                       !.update_error = UpdateError(UpdateSuccess(w.has_update_error))]}
      [] OTHER -> {}

\* the devices and image files of the ports of the multi-updater: network
\* modules, and images of two pages (line 385 on the second page)
PortUuids == {NetworkUuid}

PortProgress == {(100 * pb) \div (2 * page_size) : pb \in {bin_begin}}

\* the positions at which a worker thread has ended
Stopped == {"done", "crashed"}

\* an outcome event of a slot (network_state_signal, with error_message_signal
\* when it is a failure)
Outcome(kind, text) == [kind |-> kind, text |-> text]

MultiInit ==
    /\ InitWorker
    /\ InitCrc
    /\ firmware_version_info = CHOOSE c \in Catalogs : TRUE
    /\ files = CHOOSE d \in Disks : TRUE
    /\ InitSupervisor
    /\ modi_ports \in 0..MaxPorts
    /\ task_end_callback \in BOOLEAN

RunningCreditDropped(err, prog) == IF err = 0 THEN prog ELSE 0

\* lines 755-767: what a slot in state 0 adds to the total, before the division
\* by len(self.network_updaters)
RunningCredit(err, prog) == IF err = 0 THEN prog ELSE 100

LeavesLoopAlways(done) == TRUE

\* line 803
LeavesLoop(done) == done

\* lines 703-744 and 746-747: the updaters whose constructor did not raise, one
\* thread for each, and the head of the first pass
CreateUpdaters ==
    /\ sup_pc = "call"
    /\ \E n \in 0..Min(modi_ports, MaxUpdaters) :
        /\ network_updaters' = [i \in 1..n |-> NewWorker]
        /\ state' = [i \in 1..n |-> 0]
        /\ multi_network_uuid' = [i \in 1..n |-> <<>>]
        /\ progress_signal' = [i \in 1..n |-> 0]
        /\ outcome_signal' = [i \in 1..n |-> <<>>]
    /\ multi_update_in_progress' = TRUE
    /\ is_done' = TRUE
    /\ total_progress' = 0
    /\ index' = 1
    /\ sup_pc' = "poll"
    /\ UNCHANGED <<modi_ports, task_end_callback, n_task_end, total_progress_signal>>
    /\ UNCHANGED wkvars

\* one step of the worker thread of slot i
WorkerStepOf(i) ==
    /\ sup_pc # "call"
    /\ i \in 1..Len(network_updaters)
    /\ \E w \in WorkerSteps(network_updaters[i], PortUuids, PortProgress) :
            network_updaters' = [network_updaters EXCEPT ![i] = w]
    /\ UNCHANGED <<sup_pc, state, multi_network_uuid, multi_update_in_progress, index,
                   is_done, total_progress, n_task_end, progress_signal, outcome_signal,
                   total_progress_signal, modi_ports, task_end_callback>>
    /\ UNCHANGED wkvars

\* lines 748-787: the supervisor's visit of slot index.  total_progress holds
\* len(self.network_updaters) times the sum of the code, so that it stays a
\* whole number.
Visit ==
    /\ sup_pc = "poll"
    /\ index <= Len(network_updaters)
    /\ LET w == network_updaters[index]
           adopt == Truthy(w.network_uuid) /\ Len(multi_network_uuid[index]) = 0
       IN
       /\ multi_network_uuid' =
              IF adopt THEN [multi_network_uuid EXCEPT ![index] = UuidText(w.network_uuid)]
              ELSE multi_network_uuid
       /\ CASE state[index] = 0 /\ w.update_error = 0 ->
                 /\ is_done' = FALSE
                 /\ total_progress' = total_progress + RunningCredit(w.update_error, w.progress)
                 /\ progress_signal' = [progress_signal EXCEPT ![index] = w.progress]
                 /\ UNCHANGED <<state, outcome_signal>>
            [] state[index] = 0 /\ w.update_error # 0 ->
                 /\ is_done' = FALSE
                 /\ total_progress' = total_progress + RunningCredit(w.update_error, w.progress)
                 /\ state' = [state EXCEPT ![index] = 1]
                 /\ UNCHANGED <<progress_signal, outcome_signal>>
            [] state[index] = 1 ->
                 /\ total_progress' = total_progress + 100
                 /\ IF w.update_error = 1
                    THEN /\ outcome_signal' =
                                [outcome_signal EXCEPT
                                    ![index] = Append(@, Outcome("success", ""))]
                         /\ progress_signal' = [progress_signal EXCEPT ![index] = 100]
                    ELSE /\ outcome_signal' =
                                [outcome_signal EXCEPT
                                    ![index] = Append(@, Outcome("failure",
                                                                 w.update_error_message))]
                         /\ UNCHANGED progress_signal
                 /\ state' = [state EXCEPT ![index] = 2]
                 /\ UNCHANGED is_done
            [] state[index] = 2 ->
                 /\ total_progress' = total_progress + 100
                 /\ UNCHANGED <<is_done, state, progress_signal, outcome_signal>>
    /\ index' = index + 1
    /\ UNCHANGED <<sup_pc, network_updaters, multi_update_in_progress, n_task_end,
                   total_progress_signal, modi_ports, task_end_callback>>
    /\ UNCHANGED wkvars

\* lines 789-804 and 746-747: the end of a pass: the total is shown, the loop
\* is left or the next pass begins
PassEnd ==
    /\ sup_pc = "poll"
    /\ index > Len(network_updaters)
    /\ total_progress_signal' =
           IF Len(network_updaters) # 0
           THEN total_progress \div Len(network_updaters)
           ELSE total_progress_signal
    /\ IF LeavesLoop(is_done)
       THEN /\ sup_pc' = "leave"
            /\ UNCHANGED <<is_done, total_progress, index>>
       ELSE /\ is_done' = TRUE
            /\ total_progress' = 0
            /\ index' = 1
            /\ UNCHANGED sup_pc
    /\ UNCHANGED <<network_updaters, state, multi_network_uuid, multi_update_in_progress,
                   n_task_end, progress_signal, outcome_signal, modi_ports,
                   task_end_callback>>
    /\ UNCHANGED wkvars

\* lines 806-809
TaskEnd ==
    /\ sup_pc = "leave"
    /\ multi_update_in_progress' = FALSE
    /\ n_task_end' = IF task_end_callback THEN n_task_end + 1 ELSE n_task_end
    /\ sup_pc' = "returned"
    /\ UNCHANGED <<network_updaters, state, multi_network_uuid, index, is_done,
                   total_progress, progress_signal, outcome_signal,
                   total_progress_signal, modi_ports, task_end_callback>>
    /\ UNCHANGED wkvars

\* one step of one worker thread
WorkerStep == \E i \in 1..MaxPorts : WorkerStepOf(i)

MultiNext ==
    \/ CreateUpdaters
    \/ WorkerStep
    \/ Visit
    \/ PassEnd
    \/ TaskEnd

MultiSpec == MultiInit /\ [][MultiNext]_vars

\* the same threads under fair scheduling: the supervisor's loop only sleeps
\* between its steps, and every blocking read of a worker has a deadline and
\* every retry a limit, so a thread that can take a step takes one
FairMultiSpec ==
    /\ MultiSpec
    /\ WF_vars(CreateUpdaters)
    /\ WF_vars(Visit)
    /\ WF_vars(PassEnd)
    /\ WF_vars(TaskEnd)
    /\ \A i \in 1..MaxPorts : WF_vars(WorkerStepOf(i))

-----------------------------------------------------------------------------
(* calc_crc64 folded over a byte string, as the write loops of lines 416-423
   and 237-246 fold it, from checksum 0 *)

\* the longest byte string summed, in chunks of 8 bytes
MaxCrcChunks == 2

\* the 4-byte halves the chunks are made of
CrcHalves == {<<0, 0, 0, 0>>, <<1, 2, 3, 4>>, <<4, 3, 2, 1>>, <<255, 0, 128, 7>>}

CrcChunks == {a \o b : a \in CrcHalves, b \in CrcHalves}

RECURSIVE CrcInputs(_)
CrcInputs(n) ==
    IF n = 0 THEN {<<>>}
    ELSE CrcInputs(n - 1) \cup {s \o c : s \in {t \in CrcInputs(n - 1) : Len(t) = 8 * (n - 1)},
                                        c \in CrcChunks}

CrcInit ==
    /\ InitWorker
    /\ firmware_version_info = CHOOSE c \in Catalogs : TRUE
    /\ files = CHOOSE d \in Disks : TRUE
    /\ InitSupervisor
    /\ modi_ports = 0
    /\ task_end_callback = FALSE
    /\ crc_input \in CrcInputs(MaxCrcChunks)
    /\ crc_done = 0
    /\ crc_checksum = ZeroWord

\* line 422 / 239: checksum = calc_crc64(chunk, checksum), for the next chunk
CrcFold ==
    /\ 8 * crc_done < Len(crc_input)
    /\ crc_checksum' = calc_crc64(Slice(crc_input, 8 * crc_done, 8 * crc_done + 8),
                                  crc_checksum)
    /\ crc_done' = crc_done + 1
    /\ UNCHANGED <<crc_input, firmware_version_info, files>>
    /\ UNCHANGED <<pc, wvars, lvars, hsent, hwarn, hpage, hend, accepted, page_data_sent,
                   mvars>>

CrcNext == CrcFold

CrcSpec == CrcInit /\ [][CrcNext]_vars

\* the position of the single worker above, as a position of WorkerSteps
ThreadAt(p) ==
    CASE p = "identify_wait" -> "identify"
      [] p \in {"warning_wait", "warning_timeout"} -> "warning"
      [] p = "warning_timeout_msg" -> "timeout"
      [] p = "load_image" -> "load"
      [] p \in {"page_loop", "page_erase_wait", "page_crc_wait"} -> "flash"
      [] p \in {"end_erase_wait", "end_crc_wait"} -> "trailer"
      [] p = "end_fail_msg" -> "end_fail"
      [] OTHER -> p

\* the single worker above as the supervisor thread sees it
WorkerView ==
    Worker(ThreadAt(pc), network_uuid, progress, update_error,
           update_error_message.text, has_update_error, is_open)

\* every step of update_module_firmware leaves the view alone or is a step of
\* WorkerSteps
WorkerFollowsThread ==
    [][\/ WorkerView' = WorkerView
       \/ WorkerView' \in WorkerSteps(WorkerView, AcceptedUuids, FlashProgress)]_vars

-----------------------------------------------------------------------------
(* Properties of update_module_firmware and of the two pipelines *)

\* the pages of [bin_begin, bin_end) that hold a non-zero byte
NonZeroPages(img) == {pb \in PageStarts(img) : ~IsEmptyPage(img, pb)}

\* the packets of Phases 4 to 6
FlashKinds == {"erase", "data", "crc", "end_erase", "end_data", "end_crc", "reboot"}

\* the positions from which update_module_firmware has returned or is returning
\* out of a pipeline
Returning == {"reboot", "progress100", "epilogue", "done"}

\* C1: when update_module_firmware has returned, update_error is 1 or -1, and
\* it is 1 exactly when the warning wait ended on a warning of type 2, every
\* non-zero page of [bin_begin, bin_end) had its CRC command succeed, and the
\* trailer step succeeded with a trailer whose first byte is 0xAA.
C1_UpdateErrorContract ==
    pc = "done" =>
        /\ update_error \in {1, -1}
        /\ update_error = 1 <=>
              /\ warn_cause = "ready"
              /\ NonZeroPages(bin_buffer) \subseteq pages_acked
              /\ end_result = "ok"
              /\ Len(end_written) = 16
              /\ end_written[1] = 170

\* C1: a run that returned with update_error 1 after flashing a page
C1_Success == pc = "done" /\ update_error = 1 /\ pages_acked # {}

\* C2 (as stated): when the page loop breaks on erase failures, 3 erase commands
\* were sent since the last erase success.
C2_ThreeEraseCommands == abort_cause = "erase" => page_erase_sent = 3

\* C2, what the code does: 3 calls of set_firmware_command, each sending the
\* erase command 7 times, without moving page_begin in between.
C2_CodeEraseCommands ==
    /\ abort_cause = "erase" => page_erase_sent = 21 /\ has_update_error
    /\ page_erase_sent <= 21

\* C3: leaving the wait for a page CRC response without an exception, the worker
\* either commits the page (after k failures in a row, k <= 2, and k + 1 CRC
\* commands; the failure counter goes to 0), or goes back to the same page
\* (fewer than 3 failures in a row), or, on the third failure in a row, breaks
\* the loop with has_update_error and the message "Check crc failed.".
C3_CrcRetry ==
    [][(pc = "page_crc_wait" /\ pc' \notin {"page_crc_wait", "crashed"}) =>
        \/ /\ pc' = "page_loop"
           /\ page_begin' = page_begin + page_size
           /\ pages_acked' = pages_acked \cup {page_begin}
           /\ crc_error_count' = 0
           /\ crc_fail_run <= 2
           /\ page_crc_sent = crc_fail_run + 1
        \/ /\ pc' = "page_loop"
           /\ page_begin' = page_begin
           /\ pages_acked' = pages_acked
           /\ crc_fail_run' = crc_fail_run + 1
           /\ crc_fail_run' <= 2
           /\ has_update_error' = has_update_error
        \/ /\ pc' = "end_flash"
           /\ page_begin' = page_begin
           /\ pages_acked' = pages_acked
           /\ crc_fail_run' = 3
           /\ page_crc_sent = 3
           /\ has_update_error'
           /\ update_error_message' = Msg("", None, "Check crc failed.")]_vars

\* C3: the third CRC command of a page is out after two failures in a row
C3_ThirdCrcCommand ==
    pc = "page_crc_wait" /\ crc_fail_run = 2 /\ page_crc_sent = 3 /\ ~has_update_error

\* C4 (as stated): the progress of a run that returned is 100.
C4_FinalProgress100 == pc = "done" => progress = 100

\* C4, what the code does: a run that returned ends at 100 unless the warning
\* wait timed out, when it ends at 0.
C4_CodeProgress ==
    /\ pc = "done" => progress = IF is_timeout THEN 0 ELSE 100
    /\ pc = "page_loop" => progress <= 99

\* C4, first half: progress never goes down.
C4_ProgressNonDecreasing == [][progress' >= progress]_vars

\* C5 (as stated): the warning wait times out on empty reads at the 5th empty
\* read in a row.
C5_TimeoutOnFifthEmptyRead == warn_cause = "empty" => consec_empty = 5

\* C5, what the code does: the timeout comes with the 6th empty read of the
\* wait, whether or not other frames came in between.
C5_CodeTimeout ==
    /\ warn_cause = "empty" => retry = 6 /\ consec_empty \in 1..6
    /\ pc = "warning_wait" => retry <= 5 /\ consec_empty <= retry

TargetVersion(info) ==
    CASE info = <<"v", "1", ".", "2", ".", "3">> -> 1 * 8192 + 2 * 256 + 3
      [] info = <<"7", ".", "3", "1", ".", "2", "5", "5", "-", "r", "c">> ->
            7 * 8192 + 31 * 256 + 255
      [] info = <<"2", ".", "0", ".", "1", "0">> -> 2 * 8192 + 0 * 256 + 10

\* C7 (as stated): in a run that went through Phase 5 and returned, the 16
\* trailer bytes were sent.
C7_TrailerAlwaysWritten ==
    (pc = "done" /\ warn_cause = "ready") => Len(end_written) = 16

\* C7 (amended): a run that goes on from Phase 5 to the reboot has sent the trailer
\* erase command; the trailer chunks are sent exactly when a trailer erase was
\* acknowledged, and then the 16 bytes of the two chunks are: byte 0 = 0xFF if
\* the page loop aborted, else 0xAA; bytes 6-7 = the version word, low byte
\* first; bytes 12-15 = 0x00, 0x90, 0x00, 0x08; every other byte 0.
C7_TrailerBytes ==
    /\ (pc \in Returning /\ ~is_timeout) => end_seq >= 1 /\ "end_erase" \in sent_kinds
    /\ "end_data" \in sent_kinds <=> end_written # <<>>
    /\ end_result = "ok" => end_written # <<>>
    /\ end_written # <<>> =>
          /\ Len(end_written) = 16
          /\ end_written = end_flash_data
          /\ end_written[1] = IF abort_cause # "none" THEN 255 ELSE 170
          /\ end_written[7] =
                TargetVersion(firmware_version_info[Pipeline(is_network)]) % 256
          /\ end_written[8] =
                (TargetVersion(firmware_version_info[Pipeline(is_network)]) \div 256) % 256
          /\ <<end_written[13], end_written[14], end_written[15], end_written[16]>>
                = <<0, 144, 0, 8>>
          /\ \A i \in (2..6) \cup (9..12) : end_written[i] = 0

\* C7: the trailer written after the page loop aborted
C7_TrailerAfterAbort ==
    /\ abort_cause = "erase"
    /\ Len(end_written) = 16
    /\ end_written[1] = 255
    /\ end_chunks_sent = 2

\* C8 (as stated): a run that passed the warning wait and has ended sent one
\* reboot packet, and that was its last packet.
C8_OneRebootLast ==
    (warn_cause = "ready" /\ pc \in {"done", "crashed"}) =>
        /\ n_reboot = 1
        /\ last_sent = Pkt(9, 0, 4095, <<REBOOT, PNP_OFF>>)

\* C8, for the runs that return from the pipeline: one reboot packet, sent last.
C8_ReturningRunsReboot ==
    /\ n_reboot <= 1
    /\ n_reboot = 1 => last_sent = Pkt(9, 0, 4095, <<REBOOT, PNP_OFF>>)
    /\ (warn_cause = "ready" /\ pc \in {"progress100", "epilogue", "done"}) => n_reboot = 1

\* C9 (as stated): at most 6 trailer erase commands are sent in one trailer
\* sequence.
C9_AtMostSixEraseSends == end_erase_sent <= 6

\* C9, what the code does: up to 7 sends, and no trailer chunk in a step that
\* failed on its erase in the first sequence.
C9_CodeEraseSends ==
    /\ end_erase_sent <= 7
    /\ end_result = "erase_fail" => end_erase_sent = 7 /\ end_chunks_sent = 0

\* C10: the trailer step fails on its CRC only after 11 sequences, each of which
\* sent the two chunks and the CRC command; there are never more than 11
\* sequences; and a trailer step that succeeded did so on the CRC command of the
\* sequence it was in, after which the worker goes on to the reboot.
C10_TrailerCrcRetries ==
    /\ end_seq <= 11
    /\ end_result = "crc_fail" =>
          /\ end_seq = 11
          /\ end_crc_sent = 11
          /\ end_chunks_sent = 2
          /\ pc \in {"end_fail_msg", "end_fail_caller"} \cup Returning
    /\ end_result = "ok" =>
          /\ end_crc_sent = end_seq
          /\ end_chunks_sent = 2
          /\ pc \in Returning
    /\ pc = "end_crc_wait" => end_crc_sent = end_seq /\ end_chunks_sent = 2

\* C10: the trailer step failed on its CRC after 11 sequences
C10_EleventhSequenceFailed == end_result = "crc_fail" /\ end_seq = 11 /\ pc = "done"

\* C11 (as stated): a run whose trailer step failed returns with the message
\* "End erase error" when the erase gave out and "End crc error" when the CRC
\* gave out.
C11_FinalTrailerMessage ==
    pc = "done" =>
        /\ end_result = "erase_fail" => update_error_message.text = "End erase error"
        /\ end_result = "crc_fail" => update_error_message.text = "End crc error"

\* C11, what the code does: the message of set_end_flash_data is there for one
\* step and is then overwritten by the caller.
C11_CodeFinalMessage ==
    /\ pc = "end_fail_caller" =>
          update_error_message.text =
              IF end_result = "erase_fail" THEN "End erase error" ELSE "End crc error"
    /\ (pc \in Returning /\ end_result \in {"erase_fail", "crc_fail"}) =>
          update_error_message = Msg("", None, "version writing failed.")

\* C12 (as stated): whenever update_error is -1 the message is not empty.
C12_MessageWithError == update_error = -1 => update_error_message.text # ""

\* C12, what the code does: the message is empty with update_error = -1 only
\* between the two assignments of lines 338-340, 233-234 and 258-259.
C12_CodeMessageGap ==
    (update_error = -1 /\ update_error_message.text = "") =>
        pc \in {"warning_timeout_msg", "end_fail_msg", "crashed"}

\* C13 (as stated): an erase command succeeds only on a response whose
\* stream_state is ERASE_COMPLETE, and a CRC command only on one whose
\* stream_state is CRC_COMPLETE.
C13_OwnCompleteOnly ==
    /\ accepted.op = "erase" => accepted.w = ERASE_COMPLETE
    /\ accepted.op = "crc" => accepted.w = CRC_COMPLETE

\* C13, what the code does: receive_firmware_command_response does not know
\* which command it waits for; either COMPLETE state makes either command
\* succeed, and nothing else does.
C13_CodeEitherComplete ==
    accepted.op # "none" => accepted.w \in {CRC_COMPLETE, ERASE_COMPLETE}

\* C13: a page erase that succeeded on CRC_COMPLETE, the CRC command already sent
C13_EraseOnCrcComplete ==
    /\ pc = "page_crc_wait"
    /\ accepted = Accepted("erase", CRC_COMPLETE)
    /\ last_sent = PageCrcPkt

\* C14: the step taken at the head of the loop on an all-zero page sends
\* nothing, moves to the next page and leaves both error counters alone; the
\* worker waits for an erase or CRC response only on a page that has data.
C14_EmptyPageSkipped ==
    [][/\ (/\ pc = "page_loop"
           /\ page_begin < bin_end(bin_buffer)
           /\ page_begin \notin bin_buffer.nonzero)
          => /\ pc' = "page_loop"
             /\ page_begin' = page_begin + page_size
             /\ UNCHANGED <<last_sent, sent_kinds, erase_error_count, crc_error_count,
                            page_erase_sent, page_crc_sent, pages_acked>>
       /\ pc' \in {"page_erase_wait", "page_crc_wait"}
          => page_begin' \in bin_buffer'.nonzero]_vars

\* C14: the empty first page of an image has been passed and nothing was sent
\* for it
C14_FirstPageSkipped ==
    /\ pc = "page_loop"
    /\ page_begin = bin_begin + page_size
    /\ bin_begin \notin bin_buffer.nonzero
    /\ bin_buffer.nonzero # {}
    /\ sent_kinds \cap FlashKinds = {}
    /\ erase_error_count = 0 /\ crc_error_count = 0

\* C15 (as stated): when Phase 1 is over the mode switch has been addressed to
\* network_id; network_id is the low 12 bits of the accepted uuid, or 0xFFF
\* after a timeout, and after a timeout the worker counts as a network module.
C15_PhaseOneResult ==
    pc = "handoff" =>
        /\ last_sent = NetworkModuleStatePkt(network_id, UPDATE_FIRMWARE, PNP_OFF)
        /\ IF network_uuid # NoUuid
           THEN network_id = network_uuid.low % 4096
           ELSE network_id = BROADCAST /\ is_network = "True"

\* C15, what the code does: the timeout returns None for the module type as
\* well; is_network is None (false in the test of line 346) from then on, until
\* a 0x0A frame of the warning wait sets it.
C15_CodePhaseOne ==
    pc = "handoff" =>
        /\ last_sent = NetworkModuleStatePkt(network_id, UPDATE_FIRMWARE, PNP_OFF)
        /\ IF network_uuid # NoUuid
           THEN /\ network_id = network_uuid.low % 4096
                /\ is_network = IF get_module_type_from_uuid(network_uuid) = "network"
                                THEN "True" ELSE "False"
           ELSE network_id = BROADCAST /\ is_network = "None"

\* C15, what the code does next: the pipeline is chosen only after a 0x0A frame
\* of the warning wait has set is_network, so the None of a timeout is never
\* the value tested at line 346.
C15_CodePipelineKnown ==
    pc \in {"load_image", "page_loop"} => is_network \in {"True", "False"}

-----------------------------------------------------------------------------
(* Properties of NetworkFirmwareMultiUpdater.update_module_firmware *)

\* the slots of the supervisor
Slots == 1..Len(network_updaters)

\* C16: the supervisor is in its loop with update_in_progress set; once it has
\* left the loop every slot is in state 2 (Reported) and, with at least one
\* worker, the total shown last is 100; when it has returned update_in_progress
\* is false and the task-end callback, if set, was called exactly once, and
\* never before.
C16_SupervisorTermination ==
    /\ sup_pc \in {"poll", "leave"} => multi_update_in_progress
    /\ sup_pc \in {"leave", "returned"} =>
          /\ \A i \in Slots : state[i] = 2
          /\ Slots # {} => total_progress_signal = 100
    /\ sup_pc = "returned" =>
          /\ ~multi_update_in_progress
          /\ n_task_end = IF task_end_callback THEN 1 ELSE 0
    /\ sup_pc # "returned" => n_task_end = 0

\* C16: the supervisor has returned from a run of two workers, one reported as
\* a success and one as a failure, and the callback has run
C16_ReturnedWithTwoWorkers ==
    /\ sup_pc = "returned"
    /\ Len(network_updaters) = 2
    /\ n_task_end = 1
    /\ network_updaters[1].update_error = 1
    /\ network_updaters[2].update_error = -1
    /\ total_progress_signal = 100

\* C17 (as stated): every slot gets at most one outcome event, and exactly one
\* by the time the supervisor returns; once the worker has stopped, the event
\* is a success exactly when the worker's update_error is 1, and a failure
\* carries the update_error_message the worker stopped with.
C17_OutcomeMatchesWorker ==
    \A i \in Slots :
        /\ Len(outcome_signal[i]) <= 1
        /\ sup_pc = "returned" => Len(outcome_signal[i]) = 1
        /\ (outcome_signal[i] # <<>> /\ network_updaters[i].at \in Stopped) =>
              /\ outcome_signal[i][1].kind = "success"
                    <=> network_updaters[i].update_error = 1
              /\ outcome_signal[i][1].kind = "failure" =>
                    outcome_signal[i][1].text = network_updaters[i].update_error_message

\* C17, what the code does: one event for each slot, emitted on the step from
\* state 1 to state 2, a success exactly when the worker ends with
\* update_error 1; the text of a failure is what update_error_message held at
\* the visit, which the worker may not have written yet or may still replace.
C17_CodeOutcome ==
    \A i \in Slots :
        /\ Len(outcome_signal[i]) = IF state[i] = 2 THEN 1 ELSE 0
        /\ (outcome_signal[i] # <<>> /\ network_updaters[i].at \in Stopped) =>
              (outcome_signal[i][1].kind = "success"
                  <=> network_updaters[i].update_error = 1)
        /\ outcome_signal[i] # <<>> =>
              outcome_signal[i][1].text \in
                  {"", "Warning timeout", "erase flash failed.", "Check crc failed.",
                   "End erase error", "End crc error", "version writing failed."}

\* the step of a slot from one state to the next
SlotAdvances(i) == state'[i] = state[i] + 1

\* C18: a slot's state stays or moves from 0 to 1 or from 1 to 2; the progress
\* shown for a slot never goes down; the total shown never goes down.
C18_Monotone ==
    [][/\ \A i \in DOMAIN state \cap DOMAIN state' :
             /\ state'[i] = state[i] \/ SlotAdvances(i)
             /\ state'[i] \in {0, 1, 2}
             /\ progress_signal'[i] >= progress_signal[i]
       /\ total_progress_signal' >= total_progress_signal]_vars

\* C18: one worker reported, the other half-way, the total between the two
C18_OneReportedOneRunning ==
    /\ sup_pc = "poll"
    /\ Len(network_updaters) = 2
    /\ state = <<2, 0>>
    /\ progress_signal[2] \in PortProgress
    /\ total_progress_signal > 50
    /\ total_progress_signal < 100

\* C19 (as stated): under fair scheduling every worker comes to a stop with
\* update_error 1 or -1, and the supervisor leaves its polling loop.
C19_EveryoneFinishes ==
    <>(/\ sup_pc = "returned"
       /\ \A i \in Slots : /\ network_updaters[i].at \in Stopped
                           /\ network_updaters[i].update_error \in {1, -1})

\* C19, what the code does: every worker thread does come to an end; while a
\* worker ended by an uncaught exception is in the list the supervisor is in
\* its loop.
C19_CodeWorkersStop ==
    <>[](\A i \in Slots : network_updaters[i].at \in Stopped)

C19_CodeCrashKeepsPolling ==
    (\E i \in Slots : /\ network_updaters[i].at = "crashed"
                      /\ network_updaters[i].update_error = 0)
        => sup_pc = "poll"

-----------------------------------------------------------------------------
(* Properties of the single worker, continued *)

\* C20 (as stated): when the worker has stopped, by a return or by an
\* exception, its port is closed.
C20_ClosedWhenStopped == pc \in {"done", "crashed"} => ~is_open

\* C20, what the code does: every return closes the port; an exception raised
\* after the port was reopened leaves it open.
C20_CodeClosedOnReturn ==
    /\ pc = "done" => ~is_open
    /\ (pc = "crashed" /\ is_open) => sent_kinds # {}

\* C21 (as stated): bin_end does not exceed the length of the image file, and
\* every data packet written for a page carries exactly 8 bytes.
C21_FullPagesOnly ==
    pc \in {"page_loop", "page_erase_wait", "page_crc_wait"} =>
        /\ bin_end(bin_buffer) <= bin_buffer.len
        /\ \A k \in 1..Len(page_data_sent) : page_data_sent[k].n = 8

\* C21, what the code does: bin_size is sys.getsizeof(bin_buffer), the length of
\* the file plus the 33 bytes of the bytes object, so bin_end can pass the end
\* of the file by up to 32 bytes; the write loop still sends page_size / 8
\* packets for the last page, the ones past the end of the file short or empty.
C21_CodePageData ==
    pc \in {"page_loop", "page_erase_wait", "page_crc_wait"} =>
        /\ bin_end(bin_buffer) <= bin_buffer.len + BYTES_OVERHEAD - 1
        /\ pc = "page_crc_wait" =>
              /\ Len(page_data_sent) = page_size \div 8
              /\ \A k \in 1..Len(page_data_sent) :
                    page_data_sent[k].n =
                        IF page_begin + 8 * k <= bin_buffer.len THEN 8
                        ELSE IF page_begin + 8 * (k - 1) >= bin_buffer.len THEN 0
                        ELSE bin_buffer.len - (page_begin + 8 * (k - 1))

-----------------------------------------------------------------------------
(* Properties of calc_crc32 / calc_crc64 *)

\* CRC-32/MPEG-2 by the book: polynomial 0x04C11DB7, no reflection, no final
\* xor, one byte at a time into the top of the register
Mpeg2Byte(crc, byte) == Crc32Shift(WordXor(crc, Word(0, 0, 0, byte)), 8)

RECURSIVE Mpeg2(_, _)
Mpeg2(bytes, crc) ==
    IF bytes = <<>> THEN crc
    ELSE CHOOSE r \in {Mpeg2(Tail(bytes), c) : c \in {Mpeg2Byte(crc, Head(bytes))}} : TRUE

\* the halves of every chunk in swapped order: s[4..8], s[0..4], s[12..16], ...
RECURSIVE SwappedHalves(_)
SwappedHalves(bytes) ==
    IF bytes = <<>> THEN <<>>
    ELSE Slice(bytes, 4, 8) \o Slice(bytes, 0, 4) \o SwappedHalves(Slice(bytes, 8, Len(bytes)))

\* the halves in their own order, the bytes of each half reversed:
\* s[3], s[2], s[1], s[0], s[7], s[6], s[5], s[4], s[11], ...
RECURSIVE ReversedHalves(_)
ReversedHalves(bytes) ==
    IF bytes = <<>> THEN <<>>
    ELSE <<bytes[4], bytes[3], bytes[2], bytes[1], bytes[8], bytes[7], bytes[6], bytes[5]>>
         \o ReversedHalves(Slice(bytes, 8, Len(bytes)))

\* the bytes folded so far
CrcFolded == Slice(crc_input, 0, 8 * crc_done)

\* C22 (as stated): the fold of calc_crc64 from 0 is CRC-32/MPEG-2 from 0 over
\* the half-chunks in swapped order, and fits in 32 bits.
C22_SwappedHalfChunks ==
    /\ crc_checksum = Mpeg2(SwappedHalves(CrcFolded), ZeroWord)
    /\ \A i \in 1..4 : crc_checksum[i] \in 0..255

\* C22 (amended): the fold of calc_crc64 from 0 is CRC-32/MPEG-2 from 0 over the
\* half-chunks in their own order with the four bytes of each half reversed,
\* and fits in 32 bits.
C22_ReversedHalfChunks ==
    /\ crc_checksum = Mpeg2(ReversedHalves(CrcFolded), ZeroWord)
    /\ \A i \in 1..4 : crc_checksum[i] \in 0..255

\* C22: two chunks folded, the halves of each of them different
C22_TwoChunksFolded ==
    /\ crc_done = 2
    /\ crc_input = <<1, 2, 3, 4, 255, 0, 128, 7, 4, 3, 2, 1, 0, 0, 0, 0>>
    /\ crc_checksum # ZeroWord

-----------------------------------------------------------------------------
(* Properties of the single worker, continued *)

\* C23: network_uuid changes only from unknown to the uuid of a network or
\* camera module, with network_id set to its low 12 bits by the same step;
\* update_error changes only from 0, to 1 or to -1.
C23_WriteOnce ==
    [][/\ network_uuid' # network_uuid =>
             /\ ~Truthy(network_uuid)
             /\ Truthy(network_uuid')
             /\ get_module_type_from_uuid(network_uuid') \in {"network", "camera"}
             /\ network_id' = network_uuid'.low % 4096
       /\ update_error' # update_error =>
             /\ update_error = 0
             /\ update_error' \in {1, -1}]_vars

\* C23: a run that kept the uuid of the network module although a camera
\* module was the last to send a warning, and that has set update_error
C23_UuidKept ==
    /\ pc = "done"
    /\ network_uuid = NetworkUuid
    /\ network_id = NetworkUuid.low % 4096
    /\ is_network = "False"
    /\ update_error = -1

\* the pages of [bin_begin, bin_end) that hold data and lie below address pb
DataPagesBelow(pb) ==
    {p \in bin_buffer.nonzero : bin_begin <= p /\ p < pb /\ p < bin_end(bin_buffer)}

\* C24: in every step of a worker, data packets of a page are sent only by
\* the step that accepts the response to the erase command of that page, with
\* sid 0, 1, 2, ... in this order and followed by the CRC command of the page;
\* the trailer is written the same way; an erase command for a page is sent
\* only when every non-zero page below it had its CRC command accepted, and
\* the trailer is begun only then or after the loop was aborted.
C24_StepsOrdered ==
    [][/\ (page_data_sent' # page_data_sent /\ page_data_sent' # <<>>) =>
             /\ pc = "page_erase_wait"
             /\ page_erase_sent >= 1
             /\ accepted' \in {Accepted("erase", CRC_COMPLETE),
                                Accepted("erase", ERASE_COMPLETE)}
             /\ \A k \in 1..Len(page_data_sent') : page_data_sent'[k].s = k - 1
             /\ last_sent' = PageCrcPkt
       /\ page_crc_sent' > page_crc_sent =>
             /\ pc = "page_erase_wait"
             /\ is_open => /\ Len(page_data_sent') = page_size \div 8
                            /\ last_sent' = PageCrcPkt
       /\ end_crc_sent' > end_crc_sent =>
             /\ pc = "end_erase_wait"
             /\ end_erase_sent >= 1
             /\ accepted' \in {Accepted("erase", CRC_COMPLETE),
                                Accepted("erase", ERASE_COMPLETE)}
             /\ is_open => /\ end_chunks_sent' = Len(end_flash_data) \div 8
                            /\ last_sent' = EndCrcPkt
       /\ page_erase_sent' > page_erase_sent =>
             DataPagesBelow(page_begin) \subseteq pages_acked
       /\ (pc' = "end_flash" /\ pc # "end_flash") =>
             \/ has_update_error'
             \/ DataPagesBelow(bin_end(bin_buffer)) \subseteq pages_acked'
       /\ end_erase_sent' > end_erase_sent =>
             \/ has_update_error
             \/ DataPagesBelow(bin_end(bin_buffer)) \subseteq pages_acked]_vars

\* C24: the data packets and the CRC command of a page are out, after its
\* erase command was accepted, while an earlier page is already verified
C24_SecondPageWritten ==
    /\ pc = "page_crc_wait"
    /\ is_open
    /\ pages_acked # {}
    /\ accepted.op = "erase"
    /\ Len(page_data_sent) = page_size \div 8
    /\ last_sent = PageCrcPkt

-----------------------------------------------------------------------------
(* Properties of the supervisor, continued *)

\* C25: once the supervisor has left its polling loop, every worker thread has
\* ended and its port is closed.
C25_WorkersEndedAtTaskEnd ==
    sup_pc \in {"leave", "returned"} =>
        \A i \in 1..Len(network_updaters) :
            /\ network_updaters[i].at \in Stopped
            /\ ~network_updaters[i].is_open

\* C25, as the code has it: once the supervisor has left its polling loop,
\* every worker has a non-zero update_error, and a worker that is still
\* running is between the assignment of -1 and its return
C25_CodeErrorSetAtTaskEnd ==
    sup_pc \in {"leave", "returned"} =>
        \A i \in 1..Len(network_updaters) :
            /\ network_updaters[i].update_error # 0
            /\ network_updaters[i].at \notin Stopped =>
                  /\ network_updaters[i].update_error = -1
                  /\ network_updaters[i].at \in
                        {"timeout", "end_fail", "end_fail_caller", "reboot",
                         "progress100", "epilogue"}

\* C25: the task-end callback has run while a worker whose trailer failed has
\* not yet sent the reboot packet and holds its port open
C25_CallbackBeforeReboot ==
    /\ sup_pc = "returned"
    /\ n_task_end = 1
    /\ \E i \in 1..Len(network_updaters) :
          /\ network_updaters[i].at = "reboot"
          /\ network_updaters[i].is_open

-----------------------------------------------------------------------------
(* Properties of the single worker: the pipeline and the uuid *)

\* the positions of Phases 4 and 5
InPipeline ==
    {"load_image", "page_loop", "page_erase_wait", "page_crc_wait", "end_flash",
     "end_erase_wait", "end_crc_wait"}

\* C26: while a pipeline runs, it is the pipeline of the module type that the
\* worker's uuid encodes.
C26_PipelineOfUuid ==
    pc \in InPipeline => Pipeline(is_network) = get_module_type_from_uuid(network_uuid)

\* C26: the camera image is being written to the module id of a network
\* module
C26_CameraImageToNetworkModule ==
    /\ pc = "page_crc_wait"
    /\ is_open
    /\ network_uuid = NetworkUuid
    /\ network_id = NetworkUuid.low % 4096
    /\ is_network = "False"
    /\ bin_buffer = files.camera
    /\ last_sent = PageCrcPkt

=============================================================================
